---- MODULE Spec2Model ----
(***************************************************************************)
(* Near-real-time break monitoring (nrt): the monitoring engine BaseNrt,   *)
(* its CUSUM subclass CuSum and the numeric kernels they rest on.          *)
(*                                                                         *)
(* A raster is a row-major list of pixels 1..NPix.  Floating-point values  *)
(* are fixed-point records: Num(v) stands for v / Milli, and NaN, PInf and *)
(* NInf are the IEEE specials numpy produces and propagates.               *)
(***************************************************************************)
EXTENDS Integers, Sequences, FiniteSets, TLC

(* ------------------------------ bounds --------------------------------- *)
\* number of pixels of the raster
NPix == 2
\* number of acquisitions in the historical cube
THist == 4
\* number of fit / _fit / monitor / to_netcdf calls made on one instance
MaxCalls == 3

Pixels == 1..NPix

(* ------------------------- floating point ------------------------------ *)
\* fixed-point resolution: one unit of a Num is 1/Milli
Milli == 10^3
\* numpy.uint16 arithmetic wraps modulo 2^16
Uint16Mod == 2^16

Num(v) == [k |-> "num", v |-> v]
NaN == [k |-> "nan", v |-> 0]
PInf == [k |-> "inf", v |-> 1]
NInf == [k |-> "inf", v |-> -1]

IsNum(a) == a.k = "num"
IsNaN(a) == a.k = "nan"
IsInf(a) == a.k = "inf"
\* numpy.isfinite
isfinite(a) == IsNum(a)
\* numpy.isnan
isnan(a) == IsNaN(a)

Sign(i) == IF i > 0 THEN 1 ELSE IF i < 0 THEN -1 ELSE 0
Abs(i) == IF i < 0 THEN -i ELSE i
\* integer quotient rounded toward zero (b # 0)
Quot(a, b) == Sign(a) * Sign(b) * (Abs(a) \div Abs(b))

FNeg(a) == IF IsNaN(a) THEN NaN ELSE [k |-> a.k, v |-> -a.v]
FAbs(a) == IF IsNaN(a) THEN NaN ELSE [k |-> a.k, v |-> Abs(a.v)]

FAdd(a, b) ==
    IF IsNaN(a) \/ IsNaN(b) THEN NaN
    ELSE IF IsInf(a) /\ IsInf(b) THEN (IF a.v = b.v THEN a ELSE NaN)
    ELSE IF IsInf(a) THEN a
    ELSE IF IsInf(b) THEN b
    ELSE Num(a.v + b.v)

FSub(a, b) == FAdd(a, FNeg(b))

FMul(a, b) ==
    IF IsNaN(a) \/ IsNaN(b) THEN NaN
    ELSE IF IsInf(a) \/ IsInf(b)
         THEN (IF a.v = 0 \/ b.v = 0 THEN NaN
               ELSE IF Sign(a.v) * Sign(b.v) > 0 THEN PInf ELSE NInf)
    ELSE Num(Quot(a.v * b.v, Milli))

\* IEEE division; a zero divisor is +0 (every divisor here is a product of
\* non-negative values)
FDiv(a, b) ==
    IF IsNaN(a) \/ IsNaN(b) THEN NaN
    ELSE IF IsInf(a) THEN (IF IsInf(b) THEN NaN
                           ELSE IF Sign(a.v) * (IF b.v < 0 THEN -1 ELSE 1) > 0
                                THEN PInf ELSE NInf)
    ELSE IF IsInf(b) THEN Num(0)
    ELSE IF b.v = 0 THEN (IF a.v = 0 THEN NaN
                          ELSE IF a.v > 0 THEN PInf ELSE NInf)
    ELSE Num(Quot(a.v * Milli, b.v))

\* a > b as numpy compares: False whenever an operand is NaN
FGt(a, b) ==
    IF IsNaN(a) \/ IsNaN(b) THEN FALSE
    ELSE IF IsInf(a) THEN a.v > 0 /\ ~(IsInf(b) /\ b.v > 0)
    ELSE IF IsInf(b) THEN b.v < 0
    ELSE a.v > b.v

\* a <= b as numpy compares
FLe(a, b) == ~IsNaN(a) /\ ~IsNaN(b) /\ ~FGt(a, b)

RECURSIVE SqrtSearch(_, _, _)
SqrtSearch(m, lo, hi) ==
    IF lo >= hi THEN lo
    ELSE LET mid == (lo + hi + 1) \div 2
         IN  IF mid * mid <= m THEN SqrtSearch(m, mid, hi)
             ELSE SqrtSearch(m, lo, mid - 1)

\* floor of the square root of a natural number below 2^31
ISqrt(m) == SqrtSearch(m, 0, 46340)

\* numpy.sqrt of a value v / Milli, v an integer
FSqrtInt(v) == IF v < 0 THEN NaN ELSE Num(ISqrt(v * Milli))

\* 10^6 * ln(k), k = 1..40, rounded
LnMicroTable ==
    << 0, 693147, 1098612, 1386294, 1609438, 1791759, 1945910, 2079442,
       2197225, 2302585, 2397895, 2484907, 2564949, 2639057, 2708050,
       2772589, 2833213, 2890372, 2944439, 2995732, 3044522, 3091042,
       3135494, 3178054, 3218876, 3258097, 3295837, 3332205, 3367296,
       3401197, 3433987, 3465736, 3496508, 3526361, 3555348, 3583519,
       3610918, 3637586, 3663562, 3688879 >>

\* 10^6 * numpy.log(a / b) for integers a > b >= 1
LnRatioMicro(a, b) == LnMicroTable[a] - LnMicroTable[b]

(* ------------------------- array helpers ------------------------------- *)
\* an attribute that was never set (Python's None) is the empty tuple
None == <<>>

RECURSIVE SumInt(_, _)
SumInt(f, i) == IF i = 0 THEN 0 ELSE f[i] + SumInt(f, i - 1)

\* numpy.count_nonzero(~numpy.isnan(r), axis=0) of one pixel's series
count_nonnan(r) == Cardinality({i \in DOMAIN r : ~isnan(r[i])})

RECURSIVE NanSum(_, _)
NanSum(r, i) ==
    IF i = 0 THEN Num(0)
    ELSE IF isnan(r[i]) THEN NanSum(r, i - 1)
    ELSE FAdd(NanSum(r, i - 1), r[i])

\* numpy.nancumsum(r, axis=0)[-1]: NaN entries count as zero
nancumsum_last(r) == NanSum(r, Len(r))

\* numpy.nanstd(r, axis=0, ddof=ddof) of one pixel's series of finite or NaN
\* values: NaN when the degrees of freedom are not positive
nanstd(r, ddof) ==
    LET h == count_nonnan(r)
        val == [i \in DOMAIN r |-> IF isnan(r[i]) THEN 0 ELSE r[i].v]
    IN  IF h - ddof <= 0 THEN NaN
        ELSE LET mean == Quot(SumInt(val, Len(r)), h)
                 sq == [i \in DOMAIN r |->
                          IF isnan(r[i]) THEN 0
                          ELSE (r[i].v - mean) * (r[i].v - mean)]
             IN  Num(ISqrt(SumInt(sq, Len(r)) \div (h - ddof)))

(* --------------------- collaborators outside src ----------------------- *)
\* significance levels, in units of 1/Milli
Alphas == {10, 50}

\* nrt.utils_cusum._cusum_ols_test_crit: critical value of the OLS-CUSUM
\* boundary test, positive and larger for a smaller level
_cusum_ols_test_crit(alpha) == IF alpha <= 10 THEN 1628 ELSE 1358

\* nrt.utils_efp._cusum_rec_test_crit: critical value of the recursive-CUSUM
\* stability test
_cusum_rec_test_crit(alpha) == IF alpha <= 10 THEN 1143 ELSE 948

CritVals == {_cusum_ols_test_crit(a) : a \in Alphas}

Cos4(m) == CASE m % 4 = 0 -> 1 [] m % 4 = 2 -> -1 [] OTHER -> 0
Sin4(m) == CASE m % 4 = 1 -> 1 [] m % 4 = 3 -> -1 [] OTHER -> 0

\* nrt.utils.build_regressors for one date q, counted in quarter years so
\* that every harmonic term is exact: intercept, optional trend, then
\* cos(2 pi k t), sin(2 pi k t) for k = 1..harmonic_order
build_regressors(q, tr, ho) ==
    <<1>> \o (IF tr THEN <<q>> ELSE <<>>)
          \o [j \in 1..(2 * ho) |->
                IF j % 2 = 1 THEN Cos4(((j + 1) \div 2) * q)
                ELSE Sin4((j \div 2) * q)]

\* number of regression coefficients, X.shape[1]
NReg(tr, ho) == Len(build_regressors(0, tr, ho))

\* what a fit method returns for one monitored pixel: the coefficients (the
\* intercept b0, every other one b0 / 10), the residual series (nans
\* leading missing acquisitions, then +amp, -amp, ...) and, for the
\* stability-aware methods, the stability flag
NanCounts == {0, 1, THist}
Amplitudes == {0, 500}
PixelFits ==
    {o \in [nans : NanCounts, amp : Amplitudes, b0 : {1000}, stable : BOOLEAN] :
        /\ (o.amp = 0 => o.nans = 0)
        /\ (~o.stable => o.nans = 0 /\ o.amp # 0)}

FitBeta(o, p) == [j \in 1..p |-> IF j = 1 THEN Num(o.b0) ELSE Num(o.b0 \div 10)]
FitResiduals(o) ==
    [i \in 1..THist |->
        IF i <= o.nans THEN NaN
        ELSE IF (i - o.nans) % 2 = 1 THEN Num(o.amp) ELSE Num(-o.amp)]

(* ----------------------------- state ------------------------------------ *)
VARIABLES
    mask,            \* BaseNrt.mask: None or one code 0..3 per pixel
    trend,           \* BaseNrt.trend
    harmonic_order,  \* BaseNrt.harmonic_order
    x, y,            \* BaseNrt.x, BaseNrt.y: coordinate arrays or None
    beta,            \* BaseNrt.beta: coefficients per pixel, or None
    process,         \* BaseNrt.process: one value per pixel, or None
    boundary,        \* BaseNrt.boundary: one value per pixel, or None
    sensitivity,     \* CuSum.sensitivity
    critval,         \* CuSum.critval
    sigma,           \* CuSum.sigma
    histsize,        \* CuSum.histsize
    n,               \* CuSum.n
    last,            \* the last call on the instance and how it ended
    calls,           \* number of calls made so far
    file,            \* the netCDF file to_netcdf writes
    loaded,          \* the instance from_netcdf built from the file
    ry,              \* rirls: the dependent series, one per column of y
    rfit             \* rirls: per column, where the fit stands

attrs == <<mask, trend, harmonic_order, x, y, beta, process, boundary,
           sensitivity, critval, sigma, histsize, n>>
vars == <<mask, trend, harmonic_order, x, y, beta, process, boundary,
          sensitivity, critval, sigma, histsize, n, last, calls, file, loaded,
          ry, rfit>>

(* --------------------------- BaseNrt._fit ------------------------------ *)
Methods == {"OLS", "IRLS", "RIRLS", "LASSO", "ROC", "CCDC-stable", "Ridge"}
Screens == {"", "Shewhart", "CCDC_RIRLS", "Hampel"}
KwargKeys == {"alpha", "green", "swir"}

OK == "ok"
UnknownMethod == "ValueError: Unknown method"
UnknownScreen == "ValueError: Unknown screen_outliers"
MissingBands == "ValueError: Parameters green and swir need to be passed"
NeedsTrend == "ValueError: Method CCDC requires trend to be true"
NotImplemented == "NotImplementedError: Method not yet implemented"
ReshapeError == "ValueError: cannot reshape array"
NoBeta == "AttributeError: NoneType has no attribute shape"

\* numpy.ones_like(y[0,:,:], dtype=numpy.uint8)
ones_like == [p \in Pixels |-> 1]

\* step 1 of _fit: the screening branch; "" is screen_outliers=None
ScreenError(screen_outliers, keys) ==
    IF screen_outliers = "Shewhart" THEN OK
    ELSE IF screen_outliers = "CCDC_RIRLS"
         THEN (IF {"green", "swir"} \subseteq keys THEN OK ELSE MissingBands)
    ELSE IF screen_outliers # "" THEN UnknownScreen
    ELSE OK

\* a reshape that takes any number of entries
ReshapeAny(mask_bool) == TRUE

\* is_stable.reshape(y.shape[1], y.shape[2]): is_stable has one entry per
\* monitored pixel, and numpy reshapes only an array that has the size of the grid
ReshapeOk(mask_bool) == Cardinality({p \in Pixels : mask_bool[p]}) = NPix

\* self.mask[~is_stable_2d] = 2
MarkUnstable(m, fits) == [p \in Pixels |-> IF ~fits[p].stable THEN 2 ELSE m[p]]

\* step 2 of _fit: the method branch, on the mask m the instance holds by then
MethodBranch(m, mask_bool, tr, method, keys, alpha, fits) ==
    IF method = "ROC"
    THEN LET a == IF "alpha" \in keys THEN alpha ELSE 50
         IN  IF ReshapeOk(mask_bool)
             THEN [err |-> OK, mask |-> MarkUnstable(m, fits), roc_alpha |-> a]
             ELSE [err |-> ReshapeError, mask |-> m, roc_alpha |-> a]
    ELSE IF method = "CCDC-stable"
    THEN IF ~tr THEN [err |-> NeedsTrend, mask |-> m, roc_alpha |-> 0]
         ELSE IF ReshapeOk(mask_bool)
              THEN [err |-> OK, mask |-> MarkUnstable(m, fits), roc_alpha |-> 0]
              ELSE [err |-> ReshapeError, mask |-> m, roc_alpha |-> 0]
    ELSE IF method = "OLS" THEN [err |-> OK, mask |-> m, roc_alpha |-> 0]
    ELSE IF method = "LASSO"
    THEN [err |-> NotImplemented, mask |-> m, roc_alpha |-> 0]
    ELSE IF method = "RIRLS" THEN [err |-> OK, mask |-> m, roc_alpha |-> 0]
    ELSE [err |-> UnknownMethod, mask |-> m, roc_alpha |-> 0]

\* BaseNrt._fit on an instance holding mask m0 and trend tr, with ho harmonics
\* in the design matrix X.  fits is what the fit method returns per pixel.
\* The result gives the mask the instance holds afterwards, how the call
\* ended, the level handed to roc_stable_fit (0: not called) and, when the
\* call returns, the full-grid beta and residuals (zero where not monitored).
_fit(m0, tr, ho, method, screen_outliers, keys, alpha, fits) ==
    LET m1 == IF m0 = None THEN ones_like ELSE m0
        mask_bool == [p \in Pixels |-> m1[p] = 1]
        serr == ScreenError(screen_outliers, keys)
        br == MethodBranch(m1, mask_bool, tr, method, keys, alpha, fits)
        nreg == NReg(tr, ho)
    IN  IF serr # OK
        THEN [err |-> serr, mask |-> m1, roc_alpha |-> 0,
              beta |-> None, residuals |-> None]
        ELSE IF br.err # OK
        THEN [err |-> br.err, mask |-> br.mask, roc_alpha |-> br.roc_alpha,
              beta |-> None, residuals |-> None]
        ELSE [err |-> OK, mask |-> br.mask, roc_alpha |-> br.roc_alpha,
              beta |-> [p \in Pixels |->
                          IF mask_bool[p] THEN FitBeta(fits[p], nreg)
                          ELSE [j \in 1..nreg |-> Num(0)]],
              residuals |-> [p \in Pixels |->
                          IF mask_bool[p] THEN FitResiduals(fits[p])
                          ELSE [i \in 1..THist |-> Num(0)]]]

(* ----------------------------- inputs ---------------------------------- *)
\* coordinates of the cube handed to fit: x per column, y of the one row
Cubes == { [x |-> [p \in Pixels |-> 2^24 - 1 + 2 * p], y |-> <<100>>] }
\* values of one pixel of an acquisition
Observations == {NaN, PInf, Num(1500), Num(6000)}
\* acquisition dates, in quarter years
Dates == {THist, THist + 1}
\* masks an instance can be built with
InitialMasks == {None} \cup [Pixels -> {0, 1}]
\* the fit results of a cube: a nominal pixel history everywhere but for at
\* most one pixel
NominalFit == [nans |-> 0, amp |-> 500, b0 |-> 1000, stable |-> TRUE]
Fits == {f \in [Pixels -> PixelFits] :
            Cardinality({p \in Pixels : f[p] # NominalFit}) <= 1}
AnyFits == CHOOSE f \in Fits : TRUE
\* the calls of the fitting pipeline: every method without screening, and
\* every screening with the OLS method and with an unknown method
FitCalls ==
    { [method |-> m, screen_outliers |-> "", bands |-> {}] : m \in Methods }
    \cup { [method |-> m, screen_outliers |-> sc, bands |-> b] :
             m \in {"OLS"}, sc \in Screens \ {""},
             b \in {{}, {"green", "swir"}} }
\* the constructor arguments an instance is built with
Configs ==
    { [trend |-> TRUE, harmonic_order |-> 0, sensitivity |-> 50],
      [trend |-> FALSE, harmonic_order |-> 0, sensitivity |-> 10],
      [trend |-> TRUE, harmonic_order |-> 1, sensitivity |-> 10] }

(* ----------------------------- CuSum ----------------------------------- *)
\* what casting NaN to numpy.uint16 can give (the C cast is undefined; builds
\* give all bits clear or all bits set)
NanAsUint16 == {0, Uint16Mod - 1}

\* numpy.sqrt(self.histsize), evaluated once for every histsize of the model
SqrtHistTable == [h \in 0..THist |-> FSqrtInt(h * Milli)]
SqrtHist(h) == SqrtHistTable[h]

\* residuals / (self.sigma * numpy.sqrt(self.histsize)) for one value
Normalize(r, sg, h) == FDiv(r, FMul(sg, SqrtHist(h)))

\* the boundary without its factor x * (x - 1)
BoundaryWithoutGrowth(nn, h, cv) ==
    IF h > 0 /\ nn > h
    THEN Num(ISqrt(cv * cv + LnRatioMicro(nn, nn - h)))
    ELSE NaN

\* numpy.sqrt(x * (x - 1) * (critval**2 + numpy.log(x / (x - 1)))) with
\* x = n / histsize: a number when 0 < histsize < n, NaN otherwise (x = 1
\* gives 0 * inf, x < 1 the logarithm of a negative, histsize = 0 inf / inf)
BoundaryFormula(nn, h, cv) ==
    IF h > 0 /\ nn > h
    THEN Num(ISqrt((nn * (nn - h) * (cv * cv + LnRatioMicro(nn, nn - h)))
                   \div (h * h)))
    ELSE NaN

\* the formula, evaluated once for every n, histsize and critval of the model
BoundaryTable ==
    [nn \in 0..(THist + MaxCalls), h \in 0..THist, cv \in CritVals |->
        BoundaryFormula(nn, h, cv)]

\* the boundary CuSum._update_process stores at a valid pixel
BoundaryValue(nn, h, cv) ==
    IF nn <= THist + MaxCalls THEN BoundaryTable[nn, h, cv]
    ELSE BoundaryFormula(nn, h, cv)

\* _update_process that leaves the count n as it was
_update_process_no_count(residual, is_valid, st) ==
    [n |-> st.n,
     boundary |-> IF is_valid THEN BoundaryValue(st.n, st.histsize, st.critval)
                  ELSE st.boundary,
     process |-> IF is_valid
                 THEN FAdd(st.process, Normalize(residual, st.sigma, st.histsize))
                 ELSE st.process]

\* _update_process counting every pixel, valid or not
_update_process_all(residual, is_valid, st) ==
    LET nn == (st.n + 1) % Uint16Mod
    IN  [n |-> nn,
         boundary |-> IF is_valid THEN BoundaryValue(nn, st.histsize, st.critval)
                      ELSE st.boundary,
         process |-> IF is_valid
                     THEN FAdd(st.process,
                               Normalize(residual, st.sigma, st.histsize))
                     ELSE st.process]

\* CuSum._update_process for one pixel: the new n, boundary and process
_update_process(residual, is_valid, st) ==
    LET nn == (st.n + (IF is_valid THEN 1 ELSE 0)) % Uint16Mod
    IN  [n |-> nn,
         boundary |-> IF is_valid THEN BoundaryValue(nn, st.histsize, st.critval)
                      ELSE st.boundary,
         process |-> IF is_valid
                     THEN FAdd(st.process,
                               Normalize(residual, st.sigma, st.histsize))
                     ELSE st.process]

\* _detect_break as "not boundary > |process|"
_detect_break_not_below(proc, bound) == ~FGt(bound, FAbs(proc))

\* CuSum._detect_break for one pixel
_detect_break(proc, bound) == FGt(FAbs(proc), bound)

\* BaseNrt._detect_extreme_outliers: the base class returns is_valid
_detect_extreme_outliers(residual, is_valid) == is_valid

RECURSIVE Dot(_, _, _)
Dot(X, b, j) == IF j = 0 THEN Num(0) ELSE FAdd(Dot(X, b, j - 1), Num(X[j] * b[j].v))

\* BaseNrt.predict for one pixel
predict(date, p) ==
    LET X == build_regressors(date, trend, harmonic_order)
    IN  Dot(X, beta[p], Len(X))

\* IsValid without the test of the mask
IsValidAnyMask(array, p) == isfinite(array[p])

\* the pixels monitor() may work on
IsValid(array, p) == mask[p] = 1 /\ isfinite(array[p])

\* the update of the mask that never marks a break
BreakUpdateNoMark(up, is_valid, m) ==
    [n |-> up.n, boundary |-> up.boundary, process |-> up.process, mask |-> m]

\* lines 187-189 of monitor for one pixel, up being what _update_process left
BreakUpdate(up, is_valid, m) ==
    [n |-> up.n, boundary |-> up.boundary, process |-> up.process,
     mask |-> IF is_valid /\ _detect_break(up.process, up.boundary) THEN 3 ELSE m]

\* one pixel's state after monitor(array, date)
MonitorPixel(array, date, p) ==
    LET residual == FSub(array[p], predict(date, p))
        is_valid == _detect_extreme_outliers(residual, IsValid(array, p))
    IN  BreakUpdate(_update_process(residual, is_valid,
                        [n |-> n[p], histsize |-> histsize[p],
                         critval |-> critval, sigma |-> sigma[p],
                         boundary |-> boundary[p], process |-> process[p]]),
                    is_valid, mask[p])

(* ------------------------ to_netcdf / from_netcdf ---------------------- *)
\* no file written yet, no instance loaded yet
NoFile == [written |-> FALSE, variables |-> <<>>]
NotLoaded == [done |-> FALSE, obj |-> <<>>]

\* the spacing of float32 values at magnitude v: 24 significant bits
RECURSIVE Ulp(_)
Ulp(v) == IF v < 2^24 THEN 1 ELSE 2 * Ulp(v \div 2)

\* a value cast to numpy.float32: rounded to 24 significant bits, ties to even
Float32(v) ==
    LET a == Abs(v)
        q == Ulp(a)
        lo == (a \div q) * q
        rem == a - lo
        r == IF 2 * rem < q THEN lo
             ELSE IF 2 * rem > q THEN lo + q
             ELSE IF (lo \div q) % 2 = 0 THEN lo ELSE lo + q
    IN  Sign(v) * r
Float32Num(a) == IF IsNum(a) THEN Num(Float32(a.v)) ELSE a

\* vars(self) of a CuSum instance
AttrNames == {"mask", "trend", "harmonic_order", "x", "y", "beta", "process",
              "boundary", "sensitivity", "critval", "sigma", "histsize", "n"}
Attr(k) ==
    CASE k = "mask" -> mask
      [] k = "trend" -> trend
      [] k = "harmonic_order" -> harmonic_order
      [] k = "x" -> x
      [] k = "y" -> y
      [] k = "beta" -> beta
      [] k = "process" -> process
      [] k = "boundary" -> boundary
      [] k = "sensitivity" -> sensitivity
      [] k = "critval" -> critval
      [] k = "sigma" -> sigma
      [] k = "histsize" -> histsize
      [] k = "n" -> n

\* the Python type of attribute k, which the branches of to_netcdf test
TypeOf(k) ==
    CASE k = "trend" -> "bool"
      [] k = "harmonic_order" -> "int"
      [] k \in {"sensitivity", "critval"} -> "float"
      [] OTHER -> IF Attr(k) = None THEN "NoneType" ELSE "ndarray"

\* the dtype of array attribute k (boundary is uint16 between fit and the
\* first monitor call); no array of a CuSum instance is boolean
Dtype(k) ==
    CASE k = "mask" -> "u1"
      [] k \in {"histsize", "n"} -> "u2"
      [] k = "sigma" -> "f4"
      [] OTHER -> "f8"

\* the variable the loop of to_netcdf creates for attribute k with value v
NcVariable(k, v) ==
    IF TypeOf(k) = "ndarray"
    THEN [form |-> "array", nctype |-> IF Dtype(k) = "bool" THEN "u1" ELSE Dtype(k),
          is_bool |-> Dtype(k) = "bool", val |-> v]
    ELSE IF TypeOf(k) = "str"
    THEN [form |-> "value", nctype |-> "c", is_bool |-> FALSE, val |-> v]
    ELSE IF TypeOf(k) = "float"
    THEN [form |-> "value", nctype |-> "f4", is_bool |-> FALSE, val |-> v]
    ELSE IF TypeOf(k) = "bool"
    THEN [form |-> "value", nctype |-> "i1", is_bool |-> TRUE,
          val |-> IF v THEN 1 ELSE 0]
    ELSE [form |-> "value", nctype |-> "i4", is_bool |-> FALSE, val |-> v]

\* the attributes the loop of to_netcdf stores: those of a type it has a branch for
Stored == {k \in AttrNames \ {"x", "y", "beta"} : TypeOf(k) # "NoneType"}

\* BaseNrt.to_netcdf: the variables of the file written.  len(self.x),
\* len(self.y) and self.beta.shape raise on an instance that was not fitted,
\* and the file then holds no variable.
to_netcdf ==
    IF x = None \/ y = None \/ beta = None
    THEN [written |-> TRUE, variables |-> <<>>]
    ELSE [written |-> TRUE,
          variables |->
            [k \in {"x", "y", "r", "beta"} \cup Stored |->
               CASE k = "x" -> [form |-> "array", nctype |-> "f4", is_bool |-> FALSE,
                                val |-> [i \in DOMAIN x |-> Float32(x[i])]]
                 [] k = "y" -> [form |-> "array", nctype |-> "f4", is_bool |-> FALSE,
                                val |-> [i \in DOMAIN y |-> Float32(y[i])]]
                 [] k = "r" -> [form |-> "array", nctype |-> "u1", is_bool |-> FALSE,
                                val |-> [j \in 1..NReg(trend, harmonic_order) |-> j - 1]]
                 [] k = "beta" -> [form |-> "array", nctype |-> "f4", is_bool |-> FALSE,
                                   val |-> [p \in Pixels |->
                                              [j \in DOMAIN beta[p] |->
                                                 Float32Num(beta[p][j])]]]
                 [] OTHER -> NcVariable(k, Attr(k))]]

\* the value from_netcdf reads from one variable: its value attribute when it
\* has one, its data otherwise, coerced to bool when tagged so
LoadValue(nc_var) ==
    IF nc_var.form = "value"
    THEN (IF nc_var.is_bool THEN nc_var.val # 0 ELSE nc_var.val)
    ELSE (IF nc_var.is_bool
          THEN [i \in DOMAIN nc_var.val |-> nc_var.val[i] # 0]
          ELSE nc_var.val)

\* from_netcdf without the renaming of x and y
RenameKeyIdentity(k) == k

\* the keyword from_netcdf passes the variable k as
RenameKey(k) ==
    IF k = "x" THEN "x_coords" ELSE IF k = "y" THEN "y_coords" ELSE k

\* the dictionary d from_netcdf builds from the variables of a file
LoadDict(variables) ==
    LET kept == DOMAIN variables \ {"r"}
    IN  [a \in {RenameKey(k) : k \in kept} |->
           LoadValue(variables[CHOOSE k \in kept : RenameKey(k) = a])]

\* the argument a the constructor receives, or its default
Arg(d, a, default) == IF a \in DOMAIN d THEN d[a] ELSE default

\* CuSum(**d): keywords the signature does not name go to **kwargs and are
\* dropped; critval is computed from sensitivity
CuSumNew(d) ==
    LET s == Arg(d, "sensitivity", 50)
    IN  [mask |-> Arg(d, "mask", None),
         trend |-> Arg(d, "trend", TRUE),
         harmonic_order |-> Arg(d, "harmonic_order", 2),
         x |-> Arg(d, "x_coords", None),
         y |-> Arg(d, "y_coords", None),
         beta |-> Arg(d, "beta", None),
         process |-> Arg(d, "process", None),
         boundary |-> Arg(d, "boundary", None),
         sensitivity |-> s,
         critval |-> _cusum_ols_test_crit(s),
         sigma |-> Arg(d, "sigma", None),
         histsize |-> Arg(d, "histsize", None),
         n |-> Arg(d, "n", None)]

\* BaseNrt.from_netcdf called on CuSum
from_netcdf(f) == CuSumNew(LoadDict(f.variables))

(* --------------------------- robust fit -------------------------------- *)
\* the fixture of test_rirls: ten observations at t = 0..9 of intercept + slope * t
NObs == 10
intercept == 5
slope == 2
maxiter == 50
\* tune = 4.685 in thousandths, scale_constant = 0.6745 in units of 1e-4
tune == 4685
scale_constant == 6745
\* weights are kept in hundredths
WeightUnit == 10^2

\* num * 10^k / den, rounded toward zero, without forming num * 10^k
RECURSIVE LongDivAbs(_, _, _, _)
LongDivAbs(res, r, den, k) ==
    IF k = 0 THEN res
    ELSE LongDivAbs(res * 10 + (r * 10) \div den, (r * 10) % den, den, k - 1)
LongDiv(num, den, k) ==
    Sign(num) * Sign(den)
      * LongDivAbs(Abs(num) \div Abs(den), Abs(num) % Abs(den), Abs(den), k)

\* the k-th smallest entry of the sequence s
KthSmallest(s, k) ==
    CHOOSE v \in {s[i] : i \in DOMAIN s} :
        /\ Cardinality({i \in DOMAIN s : s[i] < v}) < k
        /\ Cardinality({i \in DOMAIN s : s[i] <= v}) >= k

\* numpy.nanmedian of a sequence without NaN: the middle entry, or the mean of
\* the two middle entries
nanmedian(s) ==
    LET m == Len(s)
    IN  IF m % 2 = 1 THEN KthSmallest(s, (m + 1) \div 2)
        ELSE Quot(KthSmallest(s, m \div 2) + KthSmallest(s, m \div 2 + 1), 2)

\* stats.mad: nanmedian(|resid - nanmedian(resid)|) / c, c in units of 1e-4
mad(resid, c) ==
    LET med == nanmedian(resid)
    IN  Quot(nanmedian([i \in DOMAIN resid |-> Abs(resid[i] - med)]) * 10^4, c)

\* a weight function that weights every residual one
bisquare_ones(resid, c) == WeightUnit

\* stats.bisquare for one scaled residual: (|resid| < c) * (1 - (resid / c)^2)^2,
\* resid and c in thousandths, the weight in hundredths
bisquare(resid, c) ==
    IF Abs(resid) < c
    THEN LET q == LongDiv(resid * resid, c * c, 3)
         IN  ((Milli - q) * (Milli - q)) \div ((Milli * Milli) \div WeightUnit)
    ELSE 0

\* the weighted least-squares fit of the series ys on the design matrix [1, t]: the normal
\* equations solved in closed form; a singular system gives NaN coefficients
weight_fit(ys, w) ==
    LET t(i) == i - 1
        Sw == SumInt(w, NObs)
        Swx == SumInt([i \in 1..NObs |-> w[i] * t(i)], NObs)
        Swxx == SumInt([i \in 1..NObs |-> w[i] * t(i) * t(i)], NObs)
        Swy == SumInt([i \in 1..NObs |-> w[i] * ys[i]], NObs)
        Swxy == SumInt([i \in 1..NObs |-> w[i] * t(i) * ys[i]], NObs)
        det == Sw * Swxx - Swx * Swx
    IN  IF det = 0 THEN <<NaN, NaN>>
        ELSE <<Num(LongDiv(Swxx * Swy - Swx * Swxy, det, 3)),
               Num(LongDiv(Sw * Swxy - Swx * Swy, det, 3))>>

\* ys - X . beta, in thousandths, for finite beta
Residuals(ys, b) == [i \in 1..NObs |-> ys[i] * Milli - (b[1].v + b[2].v * (i - 1))]

\* one pass of the loop of rirls from coefficients b: the scale is estimated
\* from the residuals, the weights from the scaled residuals, and the
\* weighted fit gives the next coefficients.  A scale of zero ends the loop
\* with b before the pass counts: test_rirls asserts the coefficients reached
\* when the inliers lie on the fitted line.  The tolerance 1e-8 is below the
\* resolution of the model, so the change is below it when the coefficients
\* repeat; NaN coefficients stay NaN and never count as converged.
RirlsPass(ys, b, c_tune, c_scale) ==
    IF isnan(b[1]) \/ isnan(b[2])
    THEN [beta |-> <<NaN, NaN>>, stop |-> FALSE, passes |-> 1]
    ELSE LET resid == Residuals(ys, b)
             scale == mad(resid, c_scale)
         IN  IF scale < 1 THEN [beta |-> b, stop |-> TRUE, passes |-> 0]
             ELSE LET nb == weight_fit(ys,
                               [i \in 1..NObs |->
                                  bisquare(Quot(resid[i] * Milli, scale), c_tune)])
                  IN  [beta |-> nb, stop |-> nb = b, passes |-> 1]

(* ----------------------------- actions --------------------------------- *)
\* the record of a call: the operation, its method argument, how it ended, the
\* level handed to roc_stable_fit (0: not called), whether the caller gave
\* alpha, the mask the instance held on entry and, for monitor, which pixels of
\* the acquisition were finite
Call(op, method, err, roc_alpha, explicit, finite) ==
    [op |-> op, method |-> method, err |-> err, roc_alpha |-> roc_alpha,
     explicit_alpha |-> explicit, entry_mask |-> mask, finite |-> finite]

\* CuSum(mask=m, trend=tr, harmonic_order=ho, sensitivity=s)
Init ==
    /\ mask \in InitialMasks
    /\ \E c \in Configs :
         /\ trend = c.trend
         /\ harmonic_order = c.harmonic_order
         /\ sensitivity = c.sensitivity
    /\ critval = _cusum_ols_test_crit(sensitivity)
    /\ x = None /\ y = None /\ beta = None
    /\ process = None /\ boundary = None
    /\ sigma = None /\ histsize = None /\ n = None
    /\ last = [op |-> "__init__", method |-> "", err |-> OK, roc_alpha |-> 0,
               explicit_alpha |-> FALSE, entry_mask |-> None, finite |-> None]
    /\ calls = 0
    /\ file = NoFile
    /\ loaded = NotLoaded
    /\ ry = <<>>
    /\ rfit = <<>>

\* a direct call self._fit(X, dataarray, method=..., screen_outliers=...,
\* **kwargs); the returned beta and residuals are the caller's
FitPipeline ==
    /\ calls < MaxCalls
    /\ \E c \in FitCalls, with_alpha \in BOOLEAN, alpha \in Alphas :
        /\ (~with_alpha => alpha = 50)
        /\ \E keys \in {c.bands \cup (IF with_alpha THEN {"alpha"} ELSE {})} :
           \E probe \in {_fit(mask, trend, harmonic_order, c.method,
                              c.screen_outliers, keys, alpha, AnyFits)} :
           \E fits \in IF probe.err = OK /\ c.method \in {"ROC", "CCDC-stable"}
                       THEN Fits ELSE {AnyFits} :
           \E r \in {_fit(mask, trend, harmonic_order, c.method,
                          c.screen_outliers, keys, alpha, fits)} :
              /\ mask' = r.mask
              /\ last' = Call("_fit", c.method, r.err, r.roc_alpha, with_alpha, None)
    /\ calls' = calls + 1
    /\ UNCHANGED <<trend, harmonic_order, x, y, beta, process, boundary,
                   sensitivity, critval, sigma, histsize, n, file, loaded,
                   ry, rfit>>

\* lines 96-105 of CuSum.fit for one pixel, from its residual series
FitStateOf(residuals, nreg, nan16) ==
    LET hs == count_nonnan(residuals) % Uint16Mod
        sg == nanstd(residuals, nreg)
    IN  [histsize |-> hs,
         n |-> hs,
         boundary |-> Num(nan16 * Milli),
         sigma |-> sg,
         process |-> nancumsum_last(
                       [i \in 1..THist |-> Normalize(residuals[i], sg, hs)])]

\* FitStateOf, evaluated once for every residual series of the model
FitStateTable ==
    [residuals \in {FitResiduals(o) : o \in PixelFits}
                   \cup {[i \in 1..THist |-> Num(0)]},
     nreg \in {NReg(c.trend, c.harmonic_order) : c \in Configs},
     nan16 \in NanAsUint16 |-> FitStateOf(residuals, nreg, nan16)]
FitState(residuals, nreg, nan16) == FitStateTable[residuals, nreg, nan16]

\* CuSum.fit(dataarray, method=..., alpha=..., screen_outliers=..., **kwargs);
\* explicit says whether the caller passed alpha (0.05 otherwise)
CuSumFit ==
    /\ calls < MaxCalls
    /\ \E cube \in Cubes, c \in FitCalls, explicit \in BOOLEAN, given \in Alphas :
        /\ (~explicit => given = 50)
        /\ (c.method # "ROC" => ~explicit)
        /\ x' = cube.x
        /\ y' = cube.y
        /\ \E alpha \in {IF explicit THEN given ELSE 50},
              keys \in {{"alpha"} \cup c.bands} :
           \E probe \in {_fit(mask, trend, harmonic_order, c.method,
                              c.screen_outliers, keys, alpha, AnyFits)} :
           \E fits \in IF probe.err = OK THEN Fits ELSE {AnyFits},
              nan16 \in IF probe.err = OK THEN NanAsUint16 ELSE {0} :
           \E r \in {_fit(mask, trend, harmonic_order, c.method,
                          c.screen_outliers, keys, alpha, fits)} :
              /\ mask' = r.mask
              /\ last' = Call("fit", c.method, r.err, r.roc_alpha, explicit, None)
              /\ IF r.err # OK
                 THEN UNCHANGED <<beta, histsize, n, boundary, sigma, process>>
                 ELSE \E st \in {[p \in Pixels |->
                                    FitState(r.residuals[p],
                                             NReg(trend, harmonic_order), nan16)]} :
                      /\ beta' = r.beta
                      /\ histsize' = [p \in Pixels |-> st[p].histsize]
                      /\ n' = [p \in Pixels |-> st[p].n]
                      /\ boundary' = [p \in Pixels |-> st[p].boundary]
                      /\ sigma' = [p \in Pixels |-> st[p].sigma]
                      /\ process' = [p \in Pixels |-> st[p].process]
    /\ calls' = calls + 1
    /\ UNCHANGED <<trend, harmonic_order, sensitivity, critval, file, loaded,
                   ry, rfit>>

\* CuSum.monitor(array, date)
Monitor ==
    /\ calls < MaxCalls
    /\ \E array \in [Pixels -> Observations], date \in Dates :
        IF beta = None
        THEN /\ last' = Call("monitor", "", NoBeta, 0, FALSE,
                             [p \in Pixels |-> isfinite(array[p])])
             /\ UNCHANGED <<mask, n, boundary, process>>
        ELSE \E after \in {[p \in Pixels |-> MonitorPixel(array, date, p)]} :
                 /\ n' = [p \in Pixels |-> after[p].n]
                 /\ boundary' = [p \in Pixels |-> after[p].boundary]
                 /\ process' = [p \in Pixels |-> after[p].process]
                 /\ mask' = [p \in Pixels |-> after[p].mask]
                 /\ last' = Call("monitor", "", OK, 0, FALSE,
                                 [p \in Pixels |-> isfinite(array[p])])
    /\ calls' = calls + 1
    /\ UNCHANGED <<trend, harmonic_order, x, y, beta, sensitivity, critval,
                   sigma, histsize, file, loaded, ry, rfit>>

\* self.to_netcdf(filename)
ToNetcdf ==
    /\ calls < MaxCalls
    /\ file' = to_netcdf
    /\ last' = Call("to_netcdf", "",
                    IF x = None \/ y = None \/ beta = None THEN NoBeta ELSE OK,
                    0, FALSE, None)
    /\ calls' = calls + 1
    /\ UNCHANGED <<attrs, loaded, ry, rfit>>

\* CuSum.from_netcdf(filename): a class method, which builds another instance
FromNetcdf ==
    /\ file.written
    /\ loaded' = [done |-> TRUE, obj |-> from_netcdf(file)]
    /\ loaded' # loaded
    /\ UNCHANGED <<attrs, last, calls, file, ry, rfit>>

Next == FitPipeline \/ CuSumFit \/ Monitor \/ ToNetcdf \/ FromNetcdf

Spec == Init /\ [][Next]_vars

(* ----------------------- the robust fit, step by step ------------------- *)
\* bounds of the series handed to rirls
MaxOutliers == 2
KSeries == 2
\* the values an outlier takes in the fixture
OutlierValues == {0, 10}
\* the series intercept + slope * t with the observations of out replaced by v
SeriesOf(out, v) ==
    [i \in 1..NObs |-> IF i \in out THEN v ELSE intercept + slope * (i - 1)]
FixtureSeries == {SeriesOf({NObs}, 0), SeriesOf({1}, 10)}
Series ==
    {SeriesOf(out, v) :
        out \in {o \in SUBSET (1..NObs) : Cardinality(o) <= MaxOutliers},
        v \in OutlierValues}

\* rirls(X, y, M=bisquare, tune=4.685, scale_est=mad, scale_constant=0.6745,
\* update_scale=True, maxiter=50, tol=1e-8) is called on a matrix y of which
\* at most one column is not a column of the fixture
InitRirls ==
    /\ ry \in {m \in [1..KSeries -> Series] :
                 Cardinality({c \in 1..KSeries : m[c] \notin FixtureSeries}) <= 1}
    /\ rfit = [c \in 1..KSeries |->
                 [pc |-> "ols", beta |-> <<Num(0), Num(0)>>, iteration |-> 0]]
    /\ mask = None /\ trend = TRUE /\ harmonic_order = 2 /\ sensitivity = 50
    /\ critval = _cusum_ols_test_crit(50)
    /\ x = None /\ y = None /\ beta = None
    /\ process = None /\ boundary = None
    /\ sigma = None /\ histsize = None /\ n = None
    /\ last = [op |-> "__init__", method |-> "", err |-> OK, roc_alpha |-> 0,
               explicit_alpha |-> FALSE, entry_mask |-> None, finite |-> None]
    /\ calls = 0
    /\ file = NoFile
    /\ loaded = NotLoaded

\* the column rirls works on: the first one not done
Current(c) ==
    /\ rfit[c].pc # "done"
    /\ \A d \in 1..(c - 1) : rfit[d].pc = "done"

\* the initial fit of a column: ordinary least squares, all weights one
RirlsStart ==
    /\ \E c \in 1..KSeries :
         /\ Current(c) /\ rfit[c].pc = "ols"
         /\ rfit' = [rfit EXCEPT ![c] =
               [pc |-> "loop",
                beta |-> weight_fit(ry[c], [i \in 1..NObs |-> WeightUnit]),
                iteration |-> 1]]
    /\ UNCHANGED <<attrs, last, calls, file, loaded, ry>>

\* one pass of the loop of a column, or its end at the iteration cap
RirlsIterate ==
    /\ \E c \in 1..KSeries :
         /\ Current(c) /\ rfit[c].pc = "loop"
         /\ IF rfit[c].iteration >= maxiter
            THEN rfit' = [rfit EXCEPT ![c].pc = "done"]
            ELSE \E r \in {RirlsPass(ry[c], rfit[c].beta, tune, scale_constant)} :
                   rfit' = [rfit EXCEPT ![c] =
                      [pc |-> IF r.stop THEN "done" ELSE "loop",
                       beta |-> r.beta,
                       iteration |-> rfit[c].iteration + r.passes]]
    /\ UNCHANGED <<attrs, last, calls, file, loaded, ry>>

NextRirls == RirlsStart \/ RirlsIterate
SpecRirls == InitRirls /\ [][NextRirls]_vars

(* -------- monitor of a subclass that keeps the detector of BaseNrt ------- *)
Uint8Mod == 2^8

\* numpy.floor_divide of two floats: the floor of the quotient, the quotient
\* itself when the divisor is zero, NaN when the dividend is not finite
floor_divide(a, b) ==
    IF IsNaN(a) \/ IsNaN(b) \/ IsInf(a) THEN NaN
    ELSE IF IsInf(b)
         THEN (IF a.v = 0 \/ (a.v > 0) = (b.v > 0) THEN Num(0) ELSE Num(-Milli))
    ELSE IF b.v = 0 THEN FDiv(a, b)
    ELSE IF b.v > 0 THEN Num((a.v \div b.v) * Milli)
    ELSE Num(((-a.v) \div (-b.v)) * Milli)

\* ndarray.astype(np.uint8) of a whole-valued float: the value itself inside
\* 0..255; outside, the conversion is undefined in C and a build either wraps
\* modulo 256 or saturates
astype_uint8(q) ==
    IF IsNaN(q) THEN {0}
    ELSE IF IsInf(q) THEN (IF q.v > 0 THEN {0, Uint8Mod - 1} ELSE {0})
    ELSE LET i == q.v \div Milli
         IN  IF i \in 0..(Uint8Mod - 1) THEN {i}
             ELSE {i % Uint8Mod, IF i < 0 THEN 0 ELSE Uint8Mod - 1}

\* BaseNrt._detect_break for one pixel: the values is_break can take
BaseNrt_detect_break(proc, bound) == astype_uint8(floor_divide(proc, bound))

\* what the _update_process of the subclass, abstract in BaseNrt, may leave
\* at a pixel it updates
ProcessAfter == {Num(-5000), Num(-500), Num(500), Num(5000), Num(256000), NaN}
BoundaryAfter == {Num(1000), Num(0)}
\* the acquisitions handed to monitor: per pixel a missing or a finite value,
\* at the first date after the history
AcquiredValues == {NaN, Num(1500)}
AcquiredDates == {THist + 1}

\* an instance of the subclass after its fit: the regression of _fit assigned,
\* process at zero under a positive boundary
InitBase ==
    /\ mask \in [Pixels -> {0, 1}]
    /\ trend = TRUE /\ harmonic_order = 2 /\ sensitivity = 50
    /\ critval = _cusum_ols_test_crit(50)
    /\ \E cube \in Cubes : x = cube.x /\ y = cube.y
    /\ beta = [p \in Pixels |-> FitBeta(NominalFit, NReg(trend, harmonic_order))]
    /\ process = [p \in Pixels |-> Num(0)]
    /\ boundary = [p \in Pixels |-> Num(Milli)]
    /\ sigma = None /\ histsize = None /\ n = None
    /\ last = [op |-> "fit", method |-> "OLS", err |-> OK, roc_alpha |-> 0,
               explicit_alpha |-> FALSE, entry_mask |-> mask, finite |-> None]
    /\ calls = 0
    /\ file = NoFile
    /\ loaded = NotLoaded
    /\ ry = <<>>
    /\ rfit = <<>>

\* BaseNrt.monitor(array, date) of the subclass: the update of the valid
\* pixels is the subclass's own, the detection is BaseNrt._detect_break and
\* np.logical_and takes any nonzero is_break for True
MonitorDefault ==
    /\ calls < MaxCalls
    /\ \E array \in [Pixels -> AcquiredValues], date \in AcquiredDates :
       \E is_valid \in {[p \in Pixels |->
             _detect_extreme_outliers(FSub(array[p], predict(date, p)),
                                      IsValid(array, p))]} :
       \E proc \in [Pixels -> ProcessAfter], bound \in [Pixels -> BoundaryAfter] :
          /\ process' = [p \in Pixels |-> IF is_valid[p] THEN proc[p] ELSE process[p]]
          /\ boundary' = [p \in Pixels |-> IF is_valid[p] THEN bound[p] ELSE boundary[p]]
          /\ \A p \in Pixels : ~is_valid[p] =>
                proc[p] = Num(-5000) /\ bound[p] = Num(1000)
          /\ \E outs \in {[p \in Pixels |->
                    BaseNrt_detect_break(process'[p], boundary'[p])]} :
             \E is_break \in [Pixels -> UNION {outs[p] : p \in Pixels}] :
               /\ \A p \in Pixels : is_break[p] \in outs[p]
               /\ mask' = [p \in Pixels |->
                             IF is_valid[p] /\ is_break[p] # 0 THEN 3 ELSE mask[p]]
          /\ last' = Call("monitor", "", OK, 0, FALSE,
                          [p \in Pixels |-> isfinite(array[p])])
    /\ calls' = calls + 1
    /\ UNCHANGED <<trend, harmonic_order, x, y, beta, sensitivity, critval,
                   sigma, histsize, n, file, loaded, ry, rfit>>

NextBase == MonitorDefault
SpecBase == InitBase /\ [][NextBase]_vars

(* ------------------------------ claims --------------------------------- *)
\* a step that is a completed monitor() call
MonitorStep == calls' = calls + 1 /\ last'.op = "monitor" /\ last'.err = OK
\* a step that is a call of fit() or _fit()
FitStep == calls' = calls + 1 /\ last'.op \in {"fit", "_fit"}
\* pixel p was valid in the monitor() call this step makes
ValidIn(p) == mask[p] = 1 /\ last'.finite[p]
\* process, boundary, n and mask of pixel p are the same after the step
SamePixel(p) ==
    /\ process'[p] = process[p]
    /\ boundary'[p] = boundary[p]
    /\ n'[p] = n[p]
    /\ mask'[p] = mask[p]

\* C1: a pixel whose mask is 3 keeps mask 3, and its process, boundary and n,
\* through every further monitor() call, whatever the acquisition and date.
C1_BrokenStaysBroken ==
    [][MonitorStep => \A p \in Pixels : mask[p] = 3 => SamePixel(p) /\ mask'[p] = 3]_vars

\* C1 witness: a monitor() call has run on a pixel that was already broken
\* when the call began.
C1_Witness ==
    /\ last.op = "monitor" /\ last.err = OK
    /\ \E p \in Pixels : last.entry_mask[p] = 3 /\ last.finite[p] /\ mask[p] = 3

\* C2: a monitor() step changes process, boundary, n and mask only at pixels
\* where mask == 1 and the observation is finite; everywhere else the four
\* values are after the step what they were before it.
C2_FrameOfMonitor ==
    [][MonitorStep => \A p \in Pixels : ~ValidIn(p) => SamePixel(p)]_vars

\* C2 witness: one monitor() call in which a monitored pixel had a finite
\* observation and was updated, another monitored pixel had none, and so kept
\* its count n.
C2_Witness ==
    /\ last.op = "monitor" /\ last.err = OK
    /\ \E p, q \in Pixels :
         /\ last.entry_mask[p] = 1 /\ last.finite[p] /\ n[p] > histsize[p]
         /\ last.entry_mask[q] = 1 /\ ~last.finite[q] /\ n[q] = histsize[q]

\* the mask code of pixel p in mask m, a missing mask being all ones
Code(m, p) == IF m = None THEN 1 ELSE m[p]

\* C3: mask values are always 0..3, and a pixel only ever goes from 1 to 2,
\* inside a fit with a stability-aware method, or from 1 to 3, inside
\* monitor(); a pixel at 0, 2 or 3 never changes.
C3_MaskLifecycle ==
    /\ [](mask # None => \A p \in Pixels : mask[p] \in 0..3)
    /\ [][\A p \in Pixels :
            Code(mask', p) # Code(mask, p) =>
              /\ Code(mask, p) = 1
              /\ \/ /\ Code(mask', p) = 2
                    /\ FitStep
                    /\ last'.method \in {"ROC", "CCDC-stable"}
                 \/ /\ Code(mask', p) = 3
                    /\ MonitorStep]_vars

\* C3 witness: after a fit marked one pixel unstable and monitor() confirmed a
\* break at another, a further call has left both codes in place.
C3_Witness ==
    /\ mask # None /\ last.entry_mask # None
    /\ \E p, q \in Pixels :
         /\ last.entry_mask[p] = 2 /\ mask[p] = 2
         /\ last.entry_mask[q] = 3 /\ mask[q] = 3

\* C4: in a monitor() step a pixel's mask becomes 3 exactly when the pixel is
\* valid in the step and, with n, boundary and process updated, |process| >
\* boundary; a valid pixel with |process| <= boundary keeps mask 1.
C4_BreakExactlyWhenExceeded ==
    [][MonitorStep => \A p \in Pixels :
          /\ ValidIn(p) =>
               /\ n'[p] = n[p] + 1
               /\ boundary'[p] = BoundaryFormula(n[p] + 1, histsize[p], critval)
          /\ (mask'[p] = 3 /\ mask[p] # 3)
               <=> (ValidIn(p) /\ FGt(FAbs(process'[p]), boundary'[p]))
          /\ (ValidIn(p) /\ FLe(FAbs(process'[p]), boundary'[p]))
               => mask'[p] = 1]_vars

\* C4 witness: one monitor() call confirmed a break at a valid pixel and left
\* another valid pixel, whose process is within its boundary, monitored.
C4_Witness ==
    /\ last.op = "monitor" /\ last.err = OK
    /\ \E p, q \in Pixels :
         /\ last.entry_mask[p] = 1 /\ last.finite[p] /\ mask[p] = 3
         /\ FGt(FAbs(process[p]), boundary[p])
         /\ last.entry_mask[q] = 1 /\ last.finite[q] /\ mask[q] = 1
         /\ FLe(FAbs(process[q]), boundary[q])

\* C5: a call of the fitting pipeline that ends with the unknown-method or
\* unknown-screening error leaves every instance attribute as it was.
C5_FailedFitLeavesNoTrace ==
    [][(FitStep /\ last'.err \in {UnknownMethod, UnknownScreen})
          => UNCHANGED attrs]_vars

\* a step that is a to_netcdf() call which wrote the whole instance
SaveStep == calls' = calls + 1 /\ last'.op = "to_netcdf" /\ last'.err = OK
\* two floating-point values agree to float32 precision
Close(a, b) == Abs(a - b) * 2^24 <= Abs(b)
CloseNum(a, b) == IF IsNum(a) /\ IsNum(b) THEN Close(a.v, b.v) ELSE a = b
\* instance o has the attribute values of the instance the model follows:
\* integer and boolean fields exactly, floating-point fields closely
SameInstance(o) ==
    /\ o.mask = mask /\ o.histsize = histsize /\ o.n = n
    /\ o.trend \in BOOLEAN /\ o.trend = trend
    /\ o.harmonic_order = harmonic_order
    /\ o.sensitivity = sensitivity /\ o.critval = critval
    /\ DOMAIN o.x = DOMAIN x /\ \A i \in DOMAIN x : Close(o.x[i], x[i])
    /\ DOMAIN o.y = DOMAIN y /\ \A i \in DOMAIN y : Close(o.y[i], y[i])
    /\ DOMAIN o.beta = Pixels
    /\ \A p \in Pixels :
         /\ DOMAIN o.beta[p] = DOMAIN beta[p]
         /\ \A j \in DOMAIN beta[p] : CloseNum(o.beta[p][j], beta[p][j])
         /\ CloseNum(o.process[p], process[p])
         /\ CloseNum(o.boundary[p], boundary[p])
         /\ CloseNum(o.sigma[p], sigma[p])

\* C6: the file to_netcdf writes for a fitted instance, read by from_netcdf,
\* gives an instance with the same mask, beta, x, y, trend, harmonic_order,
\* sensitivity, critval, process, boundary, sigma, histsize and n; x and y
\* reach the constructor as x_coords and y_coords, r does not reach it, and
\* the tagged trend comes back a boolean.
C6_NetcdfRoundTrip ==
    [][SaveStep =>
         /\ SameInstance(from_netcdf(file'))
         /\ {"x_coords", "y_coords"} \subseteq DOMAIN LoadDict(file'.variables)
         /\ DOMAIN LoadDict(file'.variables) \cap {"x", "y", "r"} = {}]_vars

\* C6 witness: a fitted and monitored instance with a confirmed break was
\* saved and reloaded; the reloaded x went through float32 and is not the
\* original bit for bit, the rest of the instance is the original's.
C6_Witness ==
    /\ loaded.done /\ last.op = "to_netcdf" /\ last.err = OK
    /\ loaded.obj = from_netcdf(file)
    /\ SameInstance(loaded.obj)
    /\ loaded.obj.x # x
    /\ \E p \in Pixels : mask[p] = 3 /\ n[p] > histsize[p]

\* C7: when fit() runs the ROC stability test and the caller gave no alpha, the
\* level handed to roc_stable_fit is the sensitivity of the instance.
C7_StabilityLevelIsSensitivity ==
    (last.op = "fit" /\ last.method = "ROC" /\ ~last.explicit_alpha
       /\ last.roc_alpha # 0)
      => last.roc_alpha = sensitivity

\* the method names the docstring of _fit lists
DocumentedMethods == {"OLS", "IRLS", "LASSO", "ROC", "CCDC-stable"}

\* C8: _fit knows every documented method name and RIRLS: LASSO ends with the
\* not-implemented error, and the unknown-method error is kept for names
\* outside the documented set.
C8_DocumentedMethodsAccepted ==
    (last.op \in {"fit", "_fit"}
       /\ last.method \in DocumentedMethods \cup {"RIRLS"})
      => /\ last.err # UnknownMethod
         /\ (last.method = "LASSO" => last.err = NotImplemented)

\* the boundary formula does not decrease from n to n + 1, for every histsize
\* and critval of the model and every n beyond histsize
FormulaGrows ==
    \A h \in 1..THist, cv \in CritVals :
      \A nn \in (h + 1)..(THist + MaxCalls - 1) :
        FLe(BoundaryFormula(nn, h, cv), BoundaryFormula(nn + 1, h, cv))

\* C9: with critval and histsize fixed the boundary formula is non-decreasing
\* in n beyond histsize, and the boundary stored at a pixel does not shrink
\* from one valid monitoring step to the next.
C9_BoundaryNeverShrinks ==
    /\ [](FormulaGrows)
    /\ [][MonitorStep => \A p \in Pixels :
            (ValidIn(p) /\ n[p] > histsize[p])
              => ~FGt(boundary[p], boundary'[p])]_vars

\* C9 witness: a pixel with a positive history has gone through two valid
\* monitoring steps and holds a larger boundary than the first step stored.
C9_Witness ==
    \E p \in Pixels :
      /\ mask # None /\ n # None
      /\ histsize[p] > 0 /\ n[p] = histsize[p] + 2
      /\ FGt(boundary[p], BoundaryFormula(histsize[p] + 1, histsize[p], critval))

\* the outliers of column c: the observations off the generating line
Outliers(c) == {i \in 1..NObs : ry[c][i] # intercept + slope * (i - 1)}
\* column c is fitted and holds the generating intercept and slope
Recovered(c) == rfit[c].beta = <<Num(intercept * Milli), Num(slope * Milli)>>

C11_StableFitOnPartialMask ==
    [][(FitStep /\ last'.method \in {"ROC", "CCDC-stable"}
          /\ (last'.method = "CCDC-stable" => trend))
        => /\ last'.err = OK
           /\ \A p \in Pixels :
                Code(mask', p) # Code(mask, p)
                  => Code(mask, p) = 1 /\ Code(mask', p) = 2]_vars

\* C12: right after a fit() that returned, n equals histsize at every pixel
\* and every boundary is NaN.
C12_FitLeavesBoundaryUnknown ==
    (last.op = "fit" /\ last.err = OK)
      => \A p \in Pixels : n[p] = histsize[p] /\ isnan(boundary[p])

C14_DefaultDetectorByTruncation ==
    [][MonitorStep => \A p \in Pixels :
         (ValidIn(p) /\ IsNum(process'[p]) /\ IsNum(boundary'[p])
            /\ boundary'[p].v > 0)
           => /\ (mask'[p] = 3) <=> (Quot(process'[p].v, boundary'[p].v) # 0)
              /\ Abs(process'[p].v) < boundary'[p].v => mask'[p] # 3
              /\ Abs(process'[p].v) >= boundary'[p].v => mask'[p] = 3]_vars

\* C15: every pixel still monitored that has had a valid observation since
\* the fit (n > histsize) has |process| <= boundary, or a NaN process.
C15_NoMonitoredPixelBeyondBoundary ==
    (mask # None /\ n # None)
      => \A p \in Pixels :
           (mask[p] = 1 /\ n[p] > histsize[p])
             => FLe(FAbs(process[p]), boundary[p]) \/ isnan(process[p])

\* C15 witness: a monitored pixel took a valid observation that moved its
\* process, then a monitor() call without observation for it, and is within
\* its boundary.
C15_Witness ==
    /\ last.op = "monitor" /\ last.err = OK
    /\ \E p \in Pixels :
         /\ last.entry_mask[p] = 1 /\ ~last.finite[p] /\ mask[p] = 1
         /\ n[p] > histsize[p]
         /\ IsNum(process[p]) /\ process[p].v # 0
         /\ FLe(FAbs(process[p]), boundary[p])

====
